---- MODULE Spec2Model ----
(***************************************************************************)
(* Model of the SCAP/XCCDF extraction engine of extract_info.py.           *)
(*                                                                         *)
(* Strings that the code inspects character by character (hrefs, texts,    *)
(* descriptions) are sequences of one-character strings; ids that the code *)
(* only compares are TLA+ strings.  An XML element is a record             *)
(*   [tag, attrs, text, kids]                                              *)
(* with attrs a function from attribute names to values and kids the       *)
(* sequence of child elements in document order.                           *)
(***************************************************************************)
EXTENDS Integers, Sequences, FiniteSets, TLC

VARIABLES
    pc,           \* the position of the program
    call,         \* the function call being evaluated: [fn |-> ..., arg |-> ...]
    ret,          \* its return value, or Pending before the call has run
    fs,           \* the scan root: [exists, files], files in listing order
    datastreams,  \* the dict that scan_scap_directory returned, in insertion order
    database,     \* the dict that build_profile_database is filling
    os_i,         \* build_profile_database: index of the outer loop
    ds_i,         \* build_profile_database: index of the loop over ds_list
    prof_i,       \* build_profile_database: index of the loop over profiles
    written       \* the content of scap_database.json, or NoDatabase

callVars == <<call, ret>>

buildVars == <<fs, datastreams, database, os_i, ds_i, prof_i, written>>

vars == <<pc, call, ret, fs, datastreams, database, os_i, ds_i, prof_i, written>>

\* No database: before build_profile_database has run, and the output file
\* before it is written.
NoDatabase == [none |-> TRUE]

\* The state of the run while a single function is evaluated on its own.
NoRun ==
    /\ fs = [exists |-> FALSE, files |-> <<>>]
    /\ datastreams = <<>>
    /\ database = NoDatabase
    /\ os_i = 0
    /\ ds_i = 0
    /\ prof_i = 0
    /\ written = NoDatabase

\* The value of `ret` before the call has returned.
Pending == <<"<pending>">>

\* Python's None as the text of an element without text.
None == <<"<None>">>

(***************************************************************************)
(* Character-level string operations (str.lower, str.upper, `in`).         *)
(***************************************************************************)
UpperChars ==
    <<"A","B","C","D","E","F","G","H","I","J","K","L","M",
      "N","O","P","Q","R","S","T","U","V","W","X","Y","Z">>

LowerChars ==
    <<"a","b","c","d","e","f","g","h","i","j","k","l","m",
      "n","o","p","q","r","s","t","u","v","w","x","y","z">>

Digits == {"0","1","2","3","4","5","6","7","8","9"}

Whitespace == {" ", "\t", "\n"}

Range(f) == {f[i] : i \in DOMAIN f}

\* Characters matched by \w, hence the two sides of \b.
IsWordChar(c) == c \in Range(UpperChars) \cup Range(LowerChars) \cup Digits \cup {"_"}

LowerChar(c) ==
    IF \E i \in DOMAIN UpperChars : UpperChars[i] = c
    THEN LowerChars[CHOOSE i \in DOMAIN UpperChars : UpperChars[i] = c]
    ELSE c

UpperChar(c) ==
    IF \E i \in DOMAIN LowerChars : LowerChars[i] = c
    THEN UpperChars[CHOOSE i \in DOMAIN LowerChars : LowerChars[i] = c]
    ELSE c

\* s.lower()
Lower(s) == [i \in DOMAIN s |-> LowerChar(s[i])]

\* s.upper()
Upper(s) == [i \in DOMAIN s |-> UpperChar(s[i])]

\* s occurs in t at position i
OccursAt(s, t, i) ==
    /\ i >= 1
    /\ i + Len(s) - 1 <= Len(t)
    /\ \A k \in 1..Len(s) : t[i + k - 1] = s[k]

\* Python's `s in t` for strings
Contains(t, s) == \E i \in 1..(Len(t) + 1) : OccursAt(s, t, i)

\* Python truthiness of an optional string: None and '' are false.
Truthy(s) == s # None /\ s # <<>>

(***************************************************************************)
(* extract_version_from_text: the regular expressions, matched as          *)
(* re.search matches them (leftmost match, greedy quantifiers).            *)
(***************************************************************************)
\* The index after the longest run of characters of `set` that starts at i.
RECURSIVE RunEnd(_, _, _)
RunEnd(s, i, set) ==
    IF i <= Len(s) /\ s[i] \in set THEN RunEnd(s, i + 1, set) ELSE i

\* \d+ at i followed by n times \.\d+ : the index after the match, 0 if none.
RECURSIVE MatchNumber(_, _, _)
MatchNumber(s, i, n) ==
    LET e == RunEnd(s, i, Digits) IN
    IF e = i THEN 0
    ELSE IF n = 0 THEN e
    ELSE IF e <= Len(s) /\ s[e] = "." THEN MatchNumber(s, e + 1, n - 1)
    ELSE 0

\* A pattern is [word, boundary, ws, dots]: an optional \b, the literal
\* `word`, \s+ when ws, then the group (\d+(\.\d+){dots}).
\* The match at position i as [from, to] of the group, or NoMatch.
NoMatch == [from |-> 0, to |-> 0]

MatchAt(p, s, i) ==
    LET w == p.word
        afterWord == i + Len(w)
        afterWs == IF p.ws THEN RunEnd(s, afterWord, Whitespace) ELSE afterWord
        e == MatchNumber(s, afterWs, p.dots)
    IN  IF /\ OccursAt(w, s, i)
           /\ (p.boundary => (i = 1 \/ ~IsWordChar(s[i - 1])))
           /\ (p.ws => afterWs > afterWord)
           /\ e # 0
        THEN [from |-> afterWs, to |-> e - 1]
        ELSE NoMatch

\* re.search(pattern, text): the leftmost match, or NoMatch.
Search(p, s) ==
    IF \E i \in 1..Len(s) : MatchAt(p, s, i) # NoMatch
    THEN LET i == CHOOSE k \in 1..Len(s) :
                    /\ MatchAt(p, s, k) # NoMatch
                    /\ \A j \in 1..(k - 1) : MatchAt(p, s, j) = NoMatch
         IN  MatchAt(p, s, i)
    ELSE NoMatch

\* match.group(1)
Group(m, s) == SubSeq(s, m.from, m.to)

PatV3 == [word |-> <<"v">>, boundary |-> FALSE, ws |-> FALSE, dots |-> 2]

PatVersionLower ==
    [word |-> <<"v","e","r","s","i","o","n">>, boundary |-> FALSE, ws |-> TRUE, dots |-> 2]

PatVersionCapital ==
    [word |-> <<"V","e","r","s","i","o","n">>, boundary |-> FALSE, ws |-> TRUE, dots |-> 2]

PatV2 == [word |-> <<"v">>, boundary |-> TRUE, ws |-> FALSE, dots |-> 1]

\* A plausible slip: the loose two-component pattern tried first.
patterns_loose_first == <<PatV2, PatV3, PatVersionLower, PatVersionCapital>>

\* The ordered pattern list of extract_version_from_text.
patterns == <<PatV3, PatVersionLower, PatVersionCapital, PatV2>>

Unknown == <<"U","n","k","n","o","w","n">>

extract_version_from_text(text) ==
    IF ~Truthy(text) THEN Unknown
    ELSE IF \E k \in DOMAIN patterns : Search(patterns[k], text) # NoMatch
    THEN LET k == CHOOSE n \in DOMAIN patterns :
                    /\ Search(patterns[n], text) # NoMatch
                    /\ \A j \in 1..(n - 1) : Search(patterns[j], text) = NoMatch
         IN  <<"v">> \o Group(Search(patterns[k], text), text)
    ELSE Unknown

(***************************************************************************)
(* Description texts: concatenations of at most MaxFragments fragments.    *)
(***************************************************************************)
MaxFragments == 2

Fragments ==
    { <<"v","3",".","0",".","0">>,
      <<"v","3",".","0">>,
      <<"v","e","r","s","i","o","n"," ","2",".","1",".","0">>,
      <<"V","e","r","s","i","o","n"," ","2",".","1",".","0">>,
      <<"V","E","R","S","I","O","N"," ","2",".","1",".","0">>,
      <<"v","E","R","S","I","O","N","\t","2",".","1",".","0">>,
      <<"r","e","v">>,
      <<"1",".","2">>,
      <<".","4">>,
      <<" ">>,
      <<"x">> }

RECURSIVE Concat(_)
Concat(parts) == IF parts = <<>> THEN <<>> ELSE Head(parts) \o Concat(Tail(parts))

Texts ==
    {None} \cup
    { Concat(parts) : parts \in UNION { [1..n -> Fragments] : n \in 0..MaxFragments } }

(***************************************************************************)
(* Specification of the version inference taken alone.                     *)
(***************************************************************************)
InitVersion ==
    /\ call \in { [fn |-> "extract_version_from_text", arg |-> t] : t \in Texts }
    /\ ret = Pending
    /\ pc = "call"
    /\ NoRun

CallVersion ==
    /\ call.fn = "extract_version_from_text"
    /\ pc = "call"
    /\ ret' = extract_version_from_text(call.arg)
    /\ pc' = "return"
    /\ UNCHANGED <<call, buildVars>>

NextVersion == CallVersion

SpecVersion == InitVersion /\ [][NextVersion]_vars

VersionReturned == call.fn = "extract_version_from_text" /\ pc = "return"

\* The number of "." in a string.
RECURSIVE CountDots(_)
CountDots(s) ==
    IF s = <<>> THEN 0
    ELSE (IF Head(s) = "." THEN 1 ELSE 0) + CountDots(Tail(s))

ThreeComponentForms == {PatV3, PatVersionLower, PatVersionCapital}

HasThreeComponentVersion(t) == \E p \in ThreeComponentForms : Search(p, t) # NoMatch

HasTwoComponentVersion(t) == Search(PatV2, t) # NoMatch

\* The pattern order the claim states: three-component forms, then the loose form.
C5_Order == <<PatV3, PatVersionLower, PatVersionCapital, PatV2>>

\* C5: the patterns are tried in a fixed order, the three-component forms
\* before the two-component form, and the first pattern that matches anywhere
\* in the text gives the result: a text in which a three-component form and a
\* two-component form both match yields "v" and the three components, whatever
\* their textual order; a text that no pattern matches, an empty text and an
\* absent text yield "Unknown".
C5_PatternPriority ==
    VersionReturned =>
        LET t == call.arg IN
        /\ ~Truthy(t) => ret = Unknown
        /\ Truthy(t) =>
            /\ (\A k \in DOMAIN C5_Order : Search(C5_Order[k], t) = NoMatch)
                   => ret = Unknown
            /\ \A k \in DOMAIN C5_Order :
                   ( /\ Search(C5_Order[k], t) # NoMatch
                     /\ \A j \in 1..(k - 1) : Search(C5_Order[j], t) = NoMatch )
                   => ret = <<"v">> \o Group(Search(C5_Order[k], t), t)
            /\ HasThreeComponentVersion(t) => ret # Unknown /\ CountDots(ret) = 2

\* A text whose two-component version comes first and whose three-component
\* version comes later, for which the three-component version was returned.
C5_Witness ==
    /\ VersionReturned
    /\ Truthy(call.arg)
    /\ HasTwoComponentVersion(call.arg)
    /\ \E p \in ThreeComponentForms :
           /\ Search(p, call.arg) # NoMatch
           /\ Search(PatV2, call.arg).to < Search(p, call.arg).from
    /\ CountDots(ret) = 2

\* C6: for every capitalisation of the word "version" followed by whitespace
\* and a three-component number, in a text that the higher-priority pattern
\* v<major.minor.patch> does not match, the result is "v" followed by the
\* number of such an occurrence.
C6_VersionWordAnyCase ==
    VersionReturned =>
        LET t == call.arg IN
        ( /\ Truthy(t)
          /\ Search(PatV3, t) = NoMatch
          /\ Search(PatVersionLower, Lower(t)) # NoMatch )
        => \E i \in 1..Len(t) :
               /\ MatchAt(PatVersionLower, Lower(t), i) # NoMatch
               /\ ret = <<"v">> \o Group(MatchAt(PatVersionLower, Lower(t), i), t)

(***************************************************************************)
(* XML elements and the ElementTree queries the code uses.                 *)
(***************************************************************************)
Elem(tag, attrs, text, kids) ==
    [tag |-> tag, attrs |-> attrs, text |-> text, kids |-> kids]

\* What find() returns when nothing matches.
NoElement == Elem("<None>", <<>>, None, <<>>)

\* elem.get(name, default)
Get(e, name, default) ==
    IF name \in DOMAIN e.attrs THEN e.attrs[name] ELSE default

\* The truth value of an Element in `if elem:` is that of len(elem), the
\* number of its children; None is false.
ElementTruth(e) == e # NoElement /\ Len(e.kids) > 0

\* The descendants of e in document order.
RECURSIVE Descendants(_)
Descendants(e) ==
    LET RECURSIVE Walk(_)
        Walk(ks) ==
            IF ks = <<>> THEN <<>>
            ELSE <<Head(ks)>> \o Descendants(Head(ks)) \o Walk(Tail(ks))
    IN  Walk(e.kids)

HasTag(tag, e) == e.tag = tag

\* e.findall('.//xccdf:<tag>')
RECURSIVE FilterTag(_, _)
FilterTag(es, tag) ==
    IF es = <<>> THEN <<>>
    ELSE (IF HasTag(tag, Head(es)) THEN <<Head(es)>> ELSE <<>>) \o FilterTag(Tail(es), tag)

FindAll(e, tag) == FilterTag(Descendants(e), tag)

\* e.find('xccdf:<tag>'): the first child with that tag
FindChild(e, tag) ==
    LET found == FilterTag(e.kids, tag) IN
    IF found = <<>> THEN NoElement ELSE Head(found)

\* e.find('.//xccdf:<tag>[@id="<id>"]'): the first descendant with that tag
\* whose id attribute is present and equal to id
RECURSIVE FirstWithId(_, _)
FirstWithId(es, id) ==
    IF es = <<>> THEN NoElement
    ELSE IF "id" \in DOMAIN Head(es).attrs /\ Head(es).attrs["id"] = id THEN Head(es)
    ELSE FirstWithId(Tail(es), id)

FindById(e, tag, id) == FirstWithId(FindAll(e, tag), id)

(***************************************************************************)
(* extract_references                                                      *)
(***************************************************************************)
KwCisecurity == <<"c","i","s","e","c","u","r","i","t","y">>
KwCis == <<"c","i","s">>
KwNist == <<"n","i","s","t">>
KwDisa == <<"d","i","s","a">>
KwSrgLower == <<"s","r","g">>
KwStigid == <<"s","t","i","g","i","d">>
KwCce == <<"c","c","e">>

\* text = ref.text or ''
RefText(ref) == IF Truthy(ref.text) THEN ref.text ELSE <<>>

\* The if/elif chain over one reference entry: the bucket it is appended
\* to, or "none".
ClassifyReference(ref) ==
    LET href == Get(ref, "href", <<>>)
        text == RefText(ref)
    IN  IF Contains(Lower(href), KwCisecurity) \/ Contains(Lower(href), KwCis)
        THEN "cis"
        ELSE IF Contains(Lower(href), KwNist) THEN "nist"
        ELSE IF Contains(Lower(href), KwDisa) /\ Contains(Upper(text), KwSrgLower)
        THEN "srg"
        ELSE IF Contains(Lower(href), KwStigid) THEN "stigid"
        ELSE "none"

\* A plausible slip: the system attribute tested as written, not lowered.
IsCceIdent_case_sensitive(ident) == Contains(Get(ident, "system", <<>>), KwCce)

\* 'cce' in system.lower()
IsCceIdent(ident) == Contains(Lower(Get(ident, "system", <<>>)), KwCce)

\* The first loop: every reference entry, in document order.
RECURSIVE AppendReferences(_, _)
AppendReferences(refs, references) ==
    IF refs = <<>> THEN references
    ELSE LET b == ClassifyReference(Head(refs)) IN
         AppendReferences(Tail(refs),
             IF b = "none" THEN references
             ELSE [references EXCEPT ![b] = Append(@, RefText(Head(refs)))])

\* The second loop: every ident element, in document order.
RECURSIVE AppendIdents(_, _)
AppendIdents(idents, references) ==
    IF idents = <<>> THEN references
    ELSE AppendIdents(Tail(idents),
             IF IsCceIdent(Head(idents))
             THEN [references EXCEPT !.cce = Append(@, Head(idents).text)]
             ELSE references)

extract_references(rule) ==
    LET references == [cis |-> <<>>, nist |-> <<>>, srg |-> <<>>, stigid |-> <<>>, cce |-> <<>>]
    IN  AppendIdents(FindAll(rule, "ident"),
            AppendReferences(FindAll(rule, "reference"), references))

(***************************************************************************)
(* Rules for the reference classifier taken alone: at most MaxEntries      *)
(* reference and ident children.                                           *)
(***************************************************************************)
MaxEntries == 2

Hrefs ==
    { <<"n","i","s","t",".","g","o","v">>,
      <<"n","i","s","t",".","g","o","v","/","c","i","s">>,
      <<"D","I","S","A",".","m","i","l">>,
      <<"d","i","s","a",".","m","i","l","/","s","t","i","g","i","d">> }

RefTexts == { <<"S","R","G","-","1">>, <<"s","r","g","-","1">>, None }

Systems == { <<"c","c","e",".","m","i","t","r","e">>, <<"C","C","E">> }

IdentTexts == { <<"C","C","E","-","1">>, None }

ReferenceElems ==
    { Elem("reference", [href |-> h], t, <<>>) : h \in Hrefs, t \in RefTexts }
    \cup { Elem("reference", <<>>, t, <<>>) : t \in RefTexts }

IdentElems ==
    { Elem("ident", [system |-> s], t, <<>>) : s \in Systems, t \in IdentTexts }
    \cup { Elem("ident", <<>>, <<"C","C","E","-","2">>, <<>>) }

RefRules ==
    { Elem("Rule", [id |-> "A"], None, kids) :
        kids \in UNION { [1..n -> ReferenceElems \cup IdentElems] : n \in 0..MaxEntries } }

InitReferences ==
    /\ call \in { [fn |-> "extract_references", arg |-> r] : r \in RefRules }
    /\ ret = Pending
    /\ pc = "call"
    /\ NoRun

CallReferences ==
    /\ call.fn = "extract_references"
    /\ pc = "call"
    /\ ret' = extract_references(call.arg)
    /\ pc' = "return"
    /\ UNCHANGED <<call, buildVars>>

NextReferences == CallReferences

SpecReferences == InitReferences /\ [][NextReferences]_vars

ReferencesReturned == call.fn = "extract_references" /\ pc = "return"

\* The conditions of the four buckets as the classification is specified:
\* case-insensitive on the href, the literal substring "SRG" on the text.
KwSrgLiteral == <<"S","R","G">>

CisCondition(ref) == Contains(Lower(Get(ref, "href", <<>>)), KwCis)

NistCondition(ref) == Contains(Lower(Get(ref, "href", <<>>)), KwNist)

SrgCondition(ref) ==
    /\ Contains(Lower(Get(ref, "href", <<>>)), KwDisa)
    /\ Contains(RefText(ref), KwSrgLiteral)

StigidCondition(ref) == Contains(Lower(Get(ref, "href", <<>>)), KwStigid)

\* The first bucket, in the order CIS, NIST, SRG, STIG-ID, whose condition holds.
FirstBucket(ref) ==
    IF CisCondition(ref) THEN "cis"
    ELSE IF NistCondition(ref) THEN "nist"
    ELSE IF SrgCondition(ref) THEN "srg"
    ELSE IF StigidCondition(ref) THEN "stigid"
    ELSE "none"

\* The texts of the reference entries of `refs` whose first bucket is b, in order.
RECURSIVE TextsOfBucket(_, _)
TextsOfBucket(refs, b) ==
    IF refs = <<>> THEN <<>>
    ELSE (IF FirstBucket(Head(refs)) = b THEN <<RefText(Head(refs))>> ELSE <<>>)
         \o TextsOfBucket(Tail(refs), b)

\* C3: a reference entry whose href indicates a DISA domain (in any case),
\* that meets neither the CIS nor the NIST condition and whose text contains
\* the literal "SRG", is appended to the SRG bucket.
C3_SrgBucket ==
    ReferencesReturned =>
        LET refs == FindAll(call.arg, "reference") IN
        \A i \in DOMAIN refs :
            ( /\ ~CisCondition(refs[i])
              /\ ~NistCondition(refs[i])
              /\ SrgCondition(refs[i]) )
            => \E j \in DOMAIN ret.srg : ret.srg[j] = RefText(refs[i])

\* C4: every reference entry is appended to at most one of the CIS, NIST, SRG
\* and STIG-ID buckets, the first in that order whose condition holds, and to
\* none if no condition holds; each bucket keeps document order and duplicates.
C4_FirstBucketWins ==
    ReferencesReturned =>
        LET refs == FindAll(call.arg, "reference") IN
        \A b \in {"cis", "nist", "srg", "stigid"} : ret[b] = TextsOfBucket(refs, b)

\* The texts of the ident elements whose system attribute mentions "cce" in
\* any case, in order.
RECURSIVE CceTexts(_)
CceTexts(idents) ==
    IF idents = <<>> THEN <<>>
    ELSE (IF Contains(Lower(Get(Head(idents), "system", <<>>)), KwCce)
          THEN <<Head(idents).text>> ELSE <<>>)
         \o CceTexts(Tail(idents))

\* The rule without its children of the given tag.
WithoutKids(rule, tag) ==
    [rule EXCEPT !.kids = SelectSeq(rule.kids, LAMBDA k : k.tag # tag)]

\* C10: every ident element whose system attribute contains "cce" in any case
\* contributes its text to the CCE bucket, in document order, independently of
\* the reference entries of the rule and of their classification; reference
\* entries add nothing to the CCE bucket and ident elements add nothing to
\* the other four buckets.
C10_CceFromIdents ==
    ReferencesReturned =>
        LET rule == call.arg
            refs == FindAll(rule, "reference")
            four == {"cis", "nist", "srg", "stigid"}
            identsOnly == extract_references(WithoutKids(rule, "reference"))
            refsOnly == extract_references(WithoutKids(rule, "ident"))
        IN  /\ ret.cce = CceTexts(FindAll(rule, "ident"))
            /\ ret.cce = identsOnly.cce
            /\ \A b \in four : ret[b] = refsOnly[b]
            /\ \A b \in four : \A j \in DOMAIN ret[b] :
                   \E i \in DOMAIN refs : ret[b][j] = RefText(refs[i])
            /\ Len(ret.cis) + Len(ret.nist) + Len(ret.srg) + Len(ret.stigid) <= Len(refs)

\* A rule with a reference entry classified as NIST and an ident whose system
\* is "CCE" in capitals: both buckets are filled.
C10_Witness ==
    /\ ReferencesReturned
    /\ ret.nist # <<>>
    /\ ret.cce # <<>>
    /\ \E k \in DOMAIN call.arg.kids :
           /\ call.arg.kids[k].tag = "ident"
           /\ Get(call.arg.kids[k], "system", <<>>) = <<"C","C","E">>

(***************************************************************************)
(* extract_rule_parameters                                                 *)
(*                                                                         *)
(* A Value id is a sequence of tokens, the vendor prefix being one token.  *)
(***************************************************************************)
ValuePrefix == <<"xccdf_org.ssgproject.content_value_">>

\* s.replace(old, ''): every non-overlapping occurrence of old removed,
\* scanning from the left.
RECURSIVE RemoveAll(_, _)
RemoveAll(s, old) ==
    IF s = <<>> THEN <<>>
    ELSE IF OccursAt(old, s, 1) THEN RemoveAll(SubSeq(s, Len(old) + 1, Len(s)), old)
    ELSE <<Head(s)>> \o RemoveAll(Tail(s), old)

\* elem.text if elem is not None else default
TextOrDefault(elem, default) == IF elem # NoElement THEN elem.text ELSE default

\* The value-id attributes of the check-export elements under the checks of
\* the rule, in the order the two nested loops visit them.
RECURSIVE ExportedValueIds(_)
ExportedValueIds(checks) ==
    IF checks = <<>> THEN <<>>
    ELSE LET exports == FindAll(Head(checks), "check-export") IN
         [i \in DOMAIN exports |-> Get(exports[i], "value-id", <<>>)]
         \o ExportedValueIds(Tail(checks))

\* `if value_elem:` the truth value of the element found, or of None
ValueResolved(value_elem) == ElementTruth(value_elem)

\* The body of the loops for one value-id.
BindParameter(root, value_id, parameters) ==
    IF value_id = <<>> THEN parameters
    ELSE LET value_elem == FindById(root, "Value", value_id) IN
         IF ~ValueResolved(value_elem) THEN parameters
         ELSE LET var_name == RemoveAll(value_id, ValuePrefix)
                  entry ==
                      [ name |-> TextOrDefault(FindChild(value_elem, "title"), Unknown),
                        default |-> TextOrDefault(FindChild(value_elem, "value"), <<>>),
                        type |-> Get(value_elem, "type", "string"),
                        value_id |-> value_id ]
              IN  (var_name :> entry) @@ parameters

RECURSIVE BindParameters(_, _, _)
BindParameters(root, value_ids, parameters) ==
    IF value_ids = <<>> THEN parameters
    ELSE BindParameters(root, Tail(value_ids),
                        BindParameter(root, Head(value_ids), parameters))

\* The empty dict.
EmptyDict == <<>>

extract_rule_parameters(root, rule_id) ==
    LET rule == FindById(root, "Rule", rule_id) IN
    IF ~ElementTruth(rule) THEN EmptyDict
    ELSE BindParameters(root, ExportedValueIds(FindAll(rule, "check")), EmptyDict)

(***************************************************************************)
(* Documents for the parameter resolver taken alone: at most MaxValues     *)
(* Value definitions, then rule "A" with at most MaxExports checks, each   *)
(* with one check-export.                                                  *)
(***************************************************************************)
MaxValues == 2

MaxExports == 2

IdVarX == ValuePrefix \o <<"var_x">>
IdVarY == <<"var_y">>
IdVarZ == ValuePrefix \o <<"var_z">>

TitleElem(t) == Elem("title", <<>>, t, <<>>)

ValueChild(t) == Elem("value", <<>>, t, <<>>)

ValueElems ==
    { Elem("Value", [id |-> IdVarX, type |-> "number"], None,
           <<TitleElem(<<"Title of x">>), ValueChild(<<"5">>)>>),
      Elem("Value", [id |-> IdVarX], None, <<>>),
      Elem("Value", [id |-> IdVarX], None, <<ValueChild(<<"7">>)>>),
      Elem("Value", [id |-> IdVarY], None, <<TitleElem(<<"Title of y">>)>>),
      Elem("Value", [id |-> IdVarY, type |-> "boolean"], None, <<>>),
      Elem("Value", [id |-> IdVarY], None, <<TitleElem(None), ValueChild(None)>>) }

CheckExportElems ==
    { Elem("check-export", "value-id" :> v, None, <<>>) : v \in {IdVarX, IdVarY, IdVarZ} }
    \cup { Elem("check-export", <<>>, None, <<>>) }

CheckElems == { Elem("check", <<>>, None, <<e>>) : e \in CheckExportElems }

ParamRules ==
    { Elem("Rule", [id |-> "A"], None, checks) :
        checks \in UNION { [1..n -> CheckElems] : n \in 0..MaxExports } }

ParamDocuments ==
    { Elem("Benchmark", <<>>, None, values \o <<rule>>) :
        values \in UNION { [1..n -> ValueElems] : n \in 0..MaxValues },
        rule \in ParamRules }

InitParameters ==
    /\ call \in { [fn |-> "extract_rule_parameters", arg |-> [root |-> d, rule_id |-> r]] :
                    d \in ParamDocuments, r \in {"A", "Z"} }
    /\ ret = Pending
    /\ pc = "call"
    /\ NoRun

CallParameters ==
    /\ call.fn = "extract_rule_parameters"
    /\ pc = "call"
    /\ ret' = extract_rule_parameters(call.arg.root, call.arg.rule_id)
    /\ pc' = "return"
    /\ UNCHANGED <<call, buildVars>>

NextParameters == CallParameters

SpecParameters == InitParameters /\ [][NextParameters]_vars

ParametersReturned == call.fn = "extract_rule_parameters" /\ pc = "return"

\* The Value id with the vendor prefix removed.
StripPrefix(id) ==
    IF OccursAt(ValuePrefix, id, 1) THEN SubSeq(id, Len(ValuePrefix) + 1, Len(id)) ELSE id

\* The Value definitions of the document with the given id.
ValueDefinitions(root, id) ==
    LET vs == FindAll(root, "Value") IN
    { vs[i] : i \in { j \in DOMAIN vs : Get(vs[j], "id", <<>>) = id } }

\* The entry of a Value definition, with the documented defaults.
DocumentedEntry(v, id) ==
    [ name |-> IF FindChild(v, "title") # NoElement THEN FindChild(v, "title").text ELSE Unknown,
      default |-> IF FindChild(v, "value") # NoElement THEN FindChild(v, "value").text ELSE <<>>,
      type |-> IF "type" \in DOMAIN v.attrs THEN v.attrs["type"] ELSE "string",
      value_id |-> id ]

\* C8: for a rule found in the document, every check-export value-id under
\* its checks that matches a Value definition has an entry in the returned
\* map, keyed by the Value id without the vendor prefix and holding the
\* defaults where the Value lacks a title, a value or a type, also when the
\* Value has no children at all; a value-id that matches no Value definition
\* has no entry.
C8_EveryResolvedValueBound ==
    ParametersReturned =>
        LET root == call.arg.root
            rule == FindById(root, "Rule", call.arg.rule_id)
            ids == ExportedValueIds(FindAll(rule, "check"))
        IN  rule # NoElement =>
            /\ \A i \in DOMAIN ids :
                   (ids[i] # <<>> /\ ValueDefinitions(root, ids[i]) # {}) =>
                       /\ StripPrefix(ids[i]) \in DOMAIN ret
                       /\ \E v \in ValueDefinitions(root, ids[i]) :
                              ret[StripPrefix(ids[i])] = DocumentedEntry(v, ids[i])
            /\ \A k \in DOMAIN ret :
                   \E i \in DOMAIN ids :
                       /\ k = StripPrefix(ids[i])
                       /\ ValueDefinitions(root, ids[i]) # {}

(***************************************************************************)
(* extract_profiles_from_datastream and extract_rules_from_datastream      *)
(*                                                                         *)
(* Both take the parsed document (the root element).                       *)
(***************************************************************************)
\* None as an id: profile_id=None, or get('idref') of a select without idref.
NoneId == "<None>"

\* The truth value of `profile_id` in `if profile_id`.
IdTruthy(id) == id # NoneId /\ id # ""

RECURSIVE SelectedOnly(_)
SelectedOnly(selects) ==
    IF selects = <<>> THEN <<>>
    ELSE (IF Get(Head(selects), "selected", NoneId) = "true" THEN <<Head(selects)>> ELSE <<>>)
         \o SelectedOnly(Tail(selects))

\* A plausible slip: every select element counted, whatever its selected attribute.
SelectedElems_any(profile) == FindAll(profile, "select")

\* profile.findall('.//xccdf:select[@selected="true"]')
SelectedElems(profile) == SelectedOnly(FindAll(profile, "select"))

\* [r.get('idref') for r in selected_rules]
IdRefs(selects) == [i \in DOMAIN selects |-> Get(selects[i], "idref", NoneId)]

ProfileRecord(profile) ==
    LET description == TextOrDefault(FindChild(profile, "description"), <<>>)
        selected_rules == SelectedElems(profile)
    IN  [ id |-> Get(profile, "id", ""),
          title |-> TextOrDefault(FindChild(profile, "title"), Unknown),
          description |-> description,
          version |-> extract_version_from_text(description),
          rule_count |-> Len(selected_rules),
          selected_rule_ids |-> IdRefs(selected_rules) ]

extract_profiles_from_datastream(root) ==
    LET found == FindAll(root, "Profile") IN
    [i \in DOMAIN found |-> ProfileRecord(found[i])]

\* The set selected_rule_ids of extract_rules_from_datastream.
SelectedRuleIds(root, profile_id) ==
    IF ~IdTruthy(profile_id) THEN {}
    ELSE LET profile == FindById(root, "Profile", profile_id) IN
         IF ~ElementTruth(profile) THEN {}
         ELSE Range(IdRefs(SelectedElems(profile)))

\* A plausible slip: len(parameters) >= 0, true of every dict.
HasParameters_not_negative(parameters) == Cardinality(DOMAIN parameters) >= 0

\* len(parameters) > 0
HasParameters(parameters) == Cardinality(DOMAIN parameters) > 0

RuleRecord(root, rule) ==
    LET rule_id == Get(rule, "id", "")
        parameters == extract_rule_parameters(root, rule_id)
    IN  [ id |-> rule_id,
          title |-> TextOrDefault(FindChild(rule, "title"), Unknown),
          description |-> TextOrDefault(FindChild(rule, "description"), <<>>),
          severity |-> Get(rule, "severity", "unknown"),
          rationale |-> TextOrDefault(FindChild(rule, "rationale"), <<>>),
          references |-> extract_references(rule),
          has_parameters |-> HasParameters(parameters),
          parameters |-> parameters ]

\* The loop over the Rule elements, with its `continue`.
RECURSIVE RuleRecords(_, _, _, _)
RuleRecords(root, rules, profile_id, selected_rule_ids) ==
    IF rules = <<>> THEN <<>>
    ELSE (IF IdTruthy(profile_id) /\ Get(Head(rules), "id", "") \notin selected_rule_ids
          THEN <<>>
          ELSE <<RuleRecord(root, Head(rules))>>)
         \o RuleRecords(root, Tail(rules), profile_id, selected_rule_ids)

extract_rules_from_datastream(root, profile_id) ==
    RuleRecords(root, FindAll(root, "Rule"), profile_id, SelectedRuleIds(root, profile_id))

(***************************************************************************)
(* Documents for the rule extractor taken alone: at most two profiles with *)
(* distinct ids (or without id), each with at most MaxSelects select       *)
(* elements, one Value and some of the rules A, B, C.                      *)
(***************************************************************************)
MaxSelects == 2

SelectList ==
    << Elem("select", [idref |-> "A", selected |-> "true"], None, <<>>),
       Elem("select", [idref |-> "B", selected |-> "true"], None, <<>>),
       Elem("select", [idref |-> "C", selected |-> "false"], None, <<>>),
       Elem("select", [idref |-> "D", selected |-> "true"], None, <<>>) >>

\* The selections: select elements of SelectList in that order, each at most once.
SelectSeqs ==
    { [i \in DOMAIN ix |-> SelectList[ix[i]]] :
        ix \in { s \in UNION { [1..n -> DOMAIN SelectList] : n \in 0..MaxSelects } :
                   \A i \in DOMAIN s : \A j \in DOMAIN s : i < j => s[i] < s[j] } }

ProfileAttrs == { [id |-> "p1"], [id |-> "p2"], <<>> }

ProfileElems == { Elem("Profile", a, None, sel) : a \in ProfileAttrs, sel \in SelectSeqs }

ProfileSeqs ==
    { ps \in UNION { [1..n -> ProfileElems] : n \in 0..2 } :
        \A i \in DOMAIN ps : \A j \in DOMAIN ps : i # j => ps[i].attrs # ps[j].attrs }

ValueX ==
    Elem("Value", [id |-> IdVarX, type |-> "number"], None,
         <<TitleElem(<<"Title of x">>), ValueChild(<<"5">>)>>)

RuleA ==
    Elem("Rule", [id |-> "A", severity |-> "high"], None,
         << TitleElem(<<"Rule A">>),
            Elem("reference", [href |-> <<"n","i","s","t",".","g","o","v">>], <<"A","C","-","2">>, <<>>),
            Elem("ident", [system |-> <<"c","c","e">>], <<"C","C","E","-","1">>, <<>>) >>)

RuleB ==
    Elem("Rule", [id |-> "B"], None,
         << TitleElem(<<"Rule B">>),
            Elem("check", <<>>, None, <<Elem("check-export", "value-id" :> IdVarX, None, <<>>)>>) >>)

RuleC == Elem("Rule", [id |-> "C", severity |-> "low"], None, <<>>)

RuleSeqs == { <<RuleA, RuleB, RuleC>>, <<RuleC, RuleB, RuleA>>, <<RuleB, RuleC>>, <<>> }

RuleDocuments ==
    { Elem("Benchmark", <<>>, None, ps \o <<ValueX>> \o rs) : ps \in ProfileSeqs, rs \in RuleSeqs }

InitRules ==
    /\ call \in { [fn |-> "extract_rules_from_datastream",
                   arg |-> [root |-> d, profile_id |-> p]] :
                    d \in RuleDocuments, p \in {NoneId, "", "p1", "p2"} }
    /\ ret = Pending
    /\ pc = "call"
    /\ NoRun

CallRules ==
    /\ call.fn = "extract_rules_from_datastream"
    /\ pc = "call"
    /\ ret' = extract_rules_from_datastream(call.arg.root, call.arg.profile_id)
    /\ pc' = "return"
    /\ UNCHANGED <<call, buildVars>>

NextRules == CallRules

SpecRules == InitRules /\ [][NextRules]_vars

RulesReturned == call.fn = "extract_rules_from_datastream" /\ pc = "return"

\* The ids of a list of rule records.
Ids(rules) == [i \in DOMAIN rules |-> rules[i].id]

\* The profiles that the document defines with the given id.
ProfilesWithId(root, id) ==
    LET ps == FindAll(root, "Profile") IN
    { ps[i] : i \in { j \in DOMAIN ps : "id" \in DOMAIN ps[j].attrs /\ ps[j].attrs["id"] = id } }

\* The selection set of a profile: the idrefs of its select elements with
\* selected="true".
SelectionSet(profile) ==
    LET sel == FindAll(profile, "select") IN
    { sel[i].attrs["idref"] :
        i \in { j \in DOMAIN sel : /\ "idref" \in DOMAIN sel[j].attrs
                                   /\ "selected" \in DOMAIN sel[j].attrs
                                   /\ sel[j].attrs["selected"] = "true" } }

\* The ids of the Rule elements of the document, in document order, that are
\* in the set.
RuleIdsIn(root, set) ==
    LET rs == FindAll(root, "Rule") IN
    Ids(SelectSeq([i \in DOMAIN rs |-> [id |-> Get(rs[i], "id", "")]],
                  LAMBDA r : r.id \in set))

\* C1: called with the (non-empty) id of a profile that the document defines,
\* extract_rules_from_datastream returns exactly the Rule elements of the
\* document, in document order, whose id is in the selection set of that
\* profile: every selected id that is a Rule appears, no unselected rule
\* appears, and a selected id without a Rule contributes nothing.
C1_FilteredByProfile ==
    RulesReturned =>
        LET root == call.arg.root
            id == call.arg.profile_id
        IN  (id # NoneId /\ id # "") =>
                \A p \in ProfilesWithId(root, id) :
                    Ids(ret) = RuleIdsIn(root, SelectionSet(p))

\* Profile p1 selects A and the id D that no Rule has, the document holds the
\* rules A, B and C: only A is returned.
C1_Witness ==
    /\ RulesReturned
    /\ call.arg.profile_id = "p1"
    /\ \E p \in ProfilesWithId(call.arg.root, "p1") : SelectionSet(p) = {"A", "D"}
    /\ Len(FindAll(call.arg.root, "Rule")) = 3
    /\ Ids(ret) = <<"A">>

\* The rule records stored in a database, as a set.
StoredRules(db) ==
    IF db = NoDatabase THEN {}
    ELSE UNION { UNION { UNION { Range(db.rules[o][v][p]) : p \in DOMAIN db.rules[o][v] } :
                           v \in DOMAIN db.rules[o] } :
                   o \in DOMAIN db.rules }

\* The flag of a rule record agrees with its parameters map.
FlagAgrees(r) == r.has_parameters <=> (DOMAIN r.parameters # {})

\* C11: for every rule record that extract_rules_from_datastream returns,
\* with or without a profile id, and hence for every rule stored in the
\* database, has_parameters is true exactly when the parameters map of the
\* rule is not empty.
C11_FlagMatchesParameters ==
    /\ RulesReturned => \A i \in DOMAIN ret : FlagAgrees(ret[i])
    /\ \A r \in StoredRules(database) : FlagAgrees(r)
    /\ \A r \in StoredRules(written) : FlagAgrees(r)

\* A call without profile id on a document with the rules A, B and C: rule
\* B has the parameter var_x and the flag, rules A and C have neither.
C11_Witness ==
    /\ RulesReturned
    /\ call.arg.profile_id = NoneId
    /\ Len(ret) = 3
    /\ \E i \in DOMAIN ret :
           /\ ret[i].id = "B"
           /\ ret[i].has_parameters
           /\ DOMAIN ret[i].parameters = {<<"var_x">>}
    /\ \E i \in DOMAIN ret :
           /\ ret[i].id = "A"
           /\ ~ret[i].has_parameters
           /\ DOMAIN ret[i].parameters = {}

(***************************************************************************)
(* scan_scap_directory                                                     *)
(*                                                                         *)
(* A directory or file name is a sequence of tokens, the fixed prefixes    *)
(* and the suffix being one token each.  The scan root holds the files     *)
(* fs.files, each [dir, name, doc], in the order the listing returns them. *)
(***************************************************************************)
DirPrefix == <<"scap-security-guide-">>

FilePrefix == <<"ssg-">>

FileSuffix == <<"-ds.xml">>

\* fnmatch of '<prefix>*<suffix>'
MatchesGlob(name, prefix, suffix) ==
    /\ Len(name) >= Len(prefix) + Len(suffix)
    /\ OccursAt(prefix, name, 1)
    /\ OccursAt(suffix, name, Len(name) - Len(suffix) + 1)

\* The distinct elements of a sequence, in the order of their first occurrence.
RECURSIVE Distinct(_)
Distinct(s) ==
    IF s = <<>> THEN <<>>
    ELSE LET front == Distinct(SubSeq(s, 1, Len(s) - 1)) IN
         IF \E i \in DOMAIN front : front[i] = s[Len(s)] THEN front
         ELSE Append(front, s[Len(s)])

\* glob.glob(f'{scap_dir}/scap-security-guide-*'): empty when the scan root
\* does not exist.
GlobDirs(root) ==
    IF ~root.exists THEN <<>>
    ELSE LET dirs == Distinct([i \in DOMAIN root.files |-> root.files[i].dir]) IN
         SelectSeq(dirs, LAMBDA d : MatchesGlob(d, DirPrefix, <<>>))

\* glob.glob(f'{ssg_dir}/ssg-*-ds.xml')
GlobFiles(root, ssg_dir) ==
    SelectSeq(root.files,
              LAMBDA f : f.dir = ssg_dir /\ MatchesGlob(f.name, FilePrefix, FileSuffix))

\* The body of the inner loop: one datastream file added to the dict, which
\* is the sequence of its items [os_name, ds_list] in insertion order.
AddDatastream(dict, ds_file) ==
    LET version == RemoveAll(ds_file.dir, DirPrefix)
        basename == ds_file.name
        os_name == RemoveAll(RemoveAll(basename, FilePrefix), FileSuffix)
        descriptor == [ path |-> [dir |-> ds_file.dir, name |-> ds_file.name],
                        version |-> version,
                        filename |-> basename ]
        with_key == IF \E i \in DOMAIN dict : dict[i].os_name = os_name THEN dict
                    ELSE Append(dict, [os_name |-> os_name, ds_list |-> <<>>])
    IN  [i \in DOMAIN with_key |->
            IF with_key[i].os_name = os_name
            THEN [with_key[i] EXCEPT !.ds_list = Append(@, descriptor)]
            ELSE with_key[i]]

RECURSIVE AddDatastreams(_, _)
AddDatastreams(dict, ds_files) ==
    IF ds_files = <<>> THEN dict
    ELSE AddDatastreams(AddDatastream(dict, Head(ds_files)), Tail(ds_files))

RECURSIVE ScanDirs(_, _, _)
ScanDirs(root, ssg_dirs, dict) ==
    IF ssg_dirs = <<>> THEN dict
    ELSE ScanDirs(root, Tail(ssg_dirs),
                  AddDatastreams(dict, GlobFiles(root, Head(ssg_dirs))))

scan_scap_directory(root) == ScanDirs(root, GlobDirs(root), <<>>)

(***************************************************************************)
(* build_profile_database and the main program, step by step.              *)
(*                                                                         *)
(* pc: start -> os_loop -> ds_loop -> profile_loop -> ... -> built -> done *)
(* or failed, when ET.parse raises: the exception is caught nowhere and    *)
(* ends the process.  The metadata of the database (the time stamp and the *)
(* scan root) is left out.                                                 *)
(***************************************************************************)
\* d[k] = v on a dict
Put(d, k, v) == (k :> v) @@ d

\* ET.parse(ds_path).getroot(), when the file parses
Parse(path) ==
    (CHOOSE f \in Range(fs.files) : f.dir = path.dir /\ f.name = path.name).doc

CurrentOs == datastreams[os_i]

CurrentDs == CurrentOs.ds_list[ds_i]

CurrentProfiles == database.profiles[CurrentOs.os_name][CurrentDs.version]

\* database = {...}; datastreams = scan_scap_directory(scap_dir)
ScanDirectory ==
    /\ pc = "start"
    /\ datastreams' = scan_scap_directory(fs)
    /\ database' = [datastreams |-> datastreams', profiles |-> EmptyDict, rules |-> EmptyDict]
    /\ os_i' = 1
    /\ pc' = "os_loop"
    /\ UNCHANGED <<callVars, fs, ds_i, prof_i, written>>

\* for os_name, ds_list in datastreams.items(): the two assignments
BeginOs ==
    /\ pc = "os_loop"
    /\ os_i <= Len(datastreams)
    /\ database' = [database EXCEPT
                       !.profiles = Put(@, CurrentOs.os_name, EmptyDict),
                       !.rules = Put(@, CurrentOs.os_name, EmptyDict)]
    /\ ds_i' = 1
    /\ pc' = "ds_loop"
    /\ UNCHANGED <<callVars, fs, datastreams, os_i, prof_i, written>>

\* return database
ReturnDatabase ==
    /\ pc = "os_loop"
    /\ os_i > Len(datastreams)
    /\ pc' = "built"
    /\ UNCHANGED <<callVars, buildVars>>

\* A plausible slip: the parse error is swallowed and the datastream skipped.
RaiseParseError_skip_datastream ==
    /\ pc' = "ds_loop"
    /\ ds_i' = ds_i + 1
    /\ UNCHANGED <<callVars, fs, datastreams, database, os_i, prof_i, written>>

\* ET.parse raises: nothing catches it, the process ends with a traceback.
RaiseParseError ==
    /\ pc' = "failed"
    /\ UNCHANGED <<callVars, buildVars>>

\* profiles = extract_profiles_from_datastream(ds_path) and the two stores
ExtractProfiles ==
    /\ pc = "ds_loop"
    /\ ds_i <= Len(CurrentOs.ds_list)
    /\ LET os_name == CurrentOs.os_name
           version == CurrentDs.version
           profiles == extract_profiles_from_datastream(Parse(CurrentDs.path))
       IN  database' = [database EXCEPT
                           !.profiles[os_name] = Put(@, version, profiles),
                           !.rules[os_name] = Put(@, version, EmptyDict)]
    /\ prof_i' = 1
    /\ pc' = "profile_loop"
    /\ UNCHANGED <<callVars, fs, datastreams, os_i, ds_i, written>>

\* ET.parse raises in extract_profiles_from_datastream
ExtractProfilesFails ==
    /\ pc = "ds_loop"
    /\ ds_i <= Len(CurrentOs.ds_list)
    /\ RaiseParseError

\* the end of `for ds_info in ds_list`
EndDatastreams ==
    /\ pc = "ds_loop"
    /\ ds_i > Len(CurrentOs.ds_list)
    /\ os_i' = os_i + 1
    /\ pc' = "os_loop"
    /\ UNCHANGED <<callVars, fs, datastreams, database, ds_i, prof_i, written>>

\* A plausible slip: the rule list of a profile without id is not stored.
ExtractRules_skips_unnamed ==
    /\ pc = "profile_loop"
    /\ prof_i <= Len(CurrentProfiles)
    /\ LET os_name == CurrentOs.os_name
           version == CurrentDs.version
           profile == CurrentProfiles[prof_i]
           rules == extract_rules_from_datastream(Parse(CurrentDs.path), profile.id)
       IN  database' = IF profile.id = "" THEN database
                       ELSE [database EXCEPT
                                !.rules[os_name][version] = Put(@, profile.id, rules)]
    /\ prof_i' = prof_i + 1
    /\ UNCHANGED <<pc, callVars, fs, datastreams, os_i, ds_i, written>>

\* rules = extract_rules_from_datastream(ds_path, profile['id']) and the store
ExtractRules ==
    /\ pc = "profile_loop"
    /\ prof_i <= Len(CurrentProfiles)
    /\ LET os_name == CurrentOs.os_name
           version == CurrentDs.version
           profile == CurrentProfiles[prof_i]
           rules == extract_rules_from_datastream(Parse(CurrentDs.path), profile.id)
       IN  database' = [database EXCEPT
                           !.rules[os_name][version] = Put(@, profile.id, rules)]
    /\ prof_i' = prof_i + 1
    /\ UNCHANGED <<pc, callVars, fs, datastreams, os_i, ds_i, written>>

\* ET.parse raises in extract_rules_from_datastream
ExtractRulesFails ==
    /\ pc = "profile_loop"
    /\ prof_i <= Len(CurrentProfiles)
    /\ RaiseParseError

\* the end of `for profile in profiles`
EndProfiles ==
    /\ pc = "profile_loop"
    /\ prof_i > Len(CurrentProfiles)
    /\ ds_i' = ds_i + 1
    /\ pc' = "ds_loop"
    /\ UNCHANGED <<callVars, fs, datastreams, database, os_i, prof_i, written>>

\* json.dump(database, f, indent=2)
SaveDatabase ==
    /\ pc = "built"
    /\ written' = database
    /\ pc' = "done"
    /\ UNCHANGED <<callVars, fs, datastreams, database, os_i, ds_i, prof_i>>

(***************************************************************************)
(* Scan roots: missing, or holding at most MaxFiles files.                 *)
(***************************************************************************)
MaxFiles == 2

ProfileWith(attrs, description, selects) ==
    Elem("Profile", attrs, None,
         <<TitleElem(<<"Profile">>), Elem("description", <<>>, description, <<>>)>> \o selects)

\* The fixture of the specification: p1 selects A and B, p2 selects B and C;
\* rule B references the Value var_x.
DocFixture ==
    Elem("Benchmark", <<>>, None,
         << ProfileWith([id |-> "p1"], <<"v","3",".","0",".","0">>,
                        <<SelectList[1], SelectList[2]>>),
            ProfileWith([id |-> "p2"], <<"v","3",".","0">>,
                        << SelectList[2],
                           Elem("select", [idref |-> "C", selected |-> "true"], None, <<>>) >>),
            ValueX, RuleA, RuleB, RuleC >>)

\* A profile without id attribute that selects A, and p1 that selects B and
\* the id D that no Rule has.
DocNoId ==
    Elem("Benchmark", <<>>, None,
         << Elem("Profile", <<>>, None, <<SelectList[1]>>),
            Elem("Profile", [id |-> "p1"], None, <<SelectList[2], SelectList[4]>>),
            RuleA, RuleB >>)

\* No profile at all.
DocPlain == Elem("Benchmark", <<>>, None, <<RuleA>>)

BuildDocuments == {DocFixture, DocNoId, DocPlain}

SsgDirs == { DirPrefix \o <<"0.1.70">>, DirPrefix \o <<"0.1.71">> }

DsNames == { FilePrefix \o <<"rhel8">> \o FileSuffix, FilePrefix \o <<"ubuntu2204">> \o FileSuffix }

Files ==
    { [dir |-> d, name |-> n, doc |-> x] : d \in SsgDirs, n \in DsNames, x \in BuildDocuments }
    \cup { [dir |-> <<"other-">> \o <<"0.1.70">>, name |-> FilePrefix \o <<"rhel8">> \o FileSuffix,
            doc |-> DocPlain],
           [dir |-> DirPrefix \o <<"0.1.70">>, name |-> FilePrefix \o <<"rhel8">> \o <<".txt">>,
            doc |-> DocPlain] }

FileSystems ==
    { [exists |-> FALSE, files |-> <<>>] } \cup
    { [exists |-> TRUE, files |-> fl] :
        fl \in { s \in UNION { [1..n -> Files] : n \in 0..MaxFiles } :
                   \A i \in DOMAIN s : \A j \in DOMAIN s :
                       i # j => (s[i].dir # s[j].dir \/ s[i].name # s[j].name) } }

InitBuild ==
    /\ pc = "start"
    /\ call = [fn |-> "__main__", arg |-> <<>>]
    /\ ret = Pending
    /\ fs \in FileSystems
    /\ datastreams = <<>>
    /\ database = NoDatabase
    /\ os_i = 0
    /\ ds_i = 0
    /\ prof_i = 0
    /\ written = NoDatabase

NextBuild ==
    \/ ScanDirectory
    \/ BeginOs
    \/ ReturnDatabase
    \/ ExtractProfiles
    \/ ExtractProfilesFails
    \/ EndDatastreams
    \/ ExtractRules
    \/ ExtractRulesFails
    \/ EndProfiles
    \/ SaveDatabase

SpecBuild == InitBuild /\ [][NextBuild]_vars

\* build_profile_database has returned.
BuildCompleted == pc \in {"built", "done"}

\* C2: after build_profile_database completes, for every discovered
\* datastream (os, version) and every profile P of profiles[os][version],
\* whatever its id (a missing or empty id included), rules[os][version][P.id]
\* holds only the rules of that datastream whose id is in
\* P.selected_rule_ids, in document order.
C2_RulesOfEveryProfileFiltered ==
    BuildCompleted =>
        \A k \in DOMAIN datastreams : \A j \in DOMAIN datastreams[k].ds_list :
            LET os_name == datastreams[k].os_name
                ds_info == datastreams[k].ds_list[j]
                profiles == database.profiles[os_name][ds_info.version]
                rules == database.rules[os_name][ds_info.version]
            IN  \A i \in DOMAIN profiles :
                    /\ profiles[i].id \in DOMAIN rules
                    /\ Ids(rules[profiles[i].id])
                           = RuleIdsIn(Parse(ds_info.path), Range(profiles[i].selected_rule_ids))

\* The scan has run (with or without an error).
Scanned == pc # "start"

\* No directory of the scan root has the name scap-security-guide-*.
NoMatchingSubdirectory ==
    \A i \in DOMAIN fs.files : ~OccursAt(DirPrefix, fs.files[i].dir, 1)

\* C7: a scan root that exists and holds no matching subdirectory yields an
\* empty datastream mapping and no error; a scan root that does not exist
\* ends the run in a fatal error, and no database is produced.
C7_MissingRootIsFatal ==
    /\ (Scanned /\ fs.exists /\ NoMatchingSubdirectory)
           => (datastreams = <<>> /\ pc # "failed")
    /\ (Scanned /\ ~fs.exists) => (pc = "failed" /\ written = NoDatabase)

\* Every discovered datastream has all its profiles and, for each of them,
\* its rule list in the database.
DatabaseFull(db) ==
    \A k \in DOMAIN datastreams : \A j \in DOMAIN datastreams[k].ds_list :
        LET os_name == datastreams[k].os_name
            ds_info == datastreams[k].ds_list[j]
        IN  /\ os_name \in DOMAIN db.profiles
            /\ os_name \in DOMAIN db.rules
            /\ ds_info.version \in DOMAIN db.profiles[os_name]
            /\ ds_info.version \in DOMAIN db.rules[os_name]
            /\ Len(db.profiles[os_name][ds_info.version])
                   = Len(FindAll(Parse(ds_info.path), "Profile"))
            /\ \A i \in DOMAIN db.profiles[os_name][ds_info.version] :
                   db.profiles[os_name][ds_info.version][i].id
                       \in DOMAIN db.rules[os_name][ds_info.version]

\* C9: a run never emits a partial database.  A parse failure, in the profile
\* extraction or in any rule extraction, after any number of datastreams,
\* ends the run in the failure state, which it never leaves, and the database
\* is never written; the database is written only when every discovered
\* datastream has all its profiles and all their rule lists stored.
C9_NoPartialDatabase ==
    /\ [](written # NoDatabase => (pc = "done" /\ DatabaseFull(written)))
    /\ [](pc = "failed" => written = NoDatabase)
    /\ [][pc = "failed" => (pc' = "failed" /\ written' = NoDatabase)]_vars

\* A parse failure in a rule extraction, after an earlier datastream was
\* processed in full: the run has failed and nothing is written.
C9_Witness ==
    /\ pc = "failed"
    /\ os_i > 1 \/ ds_i > 1
    /\ prof_i > 1
    /\ prof_i <= Len(CurrentProfiles)
    /\ written = NoDatabase


\* The OS identities discovered, and the versions discovered for one of them.
OsNames(dss) == { dss[k].os_name : k \in DOMAIN dss }

VersionsOf(dss, os_name) ==
    UNION { { dss[k].ds_list[j].version : j \in DOMAIN dss[k].ds_list } :
              k \in { n \in DOMAIN dss : dss[n].os_name = os_name } }

\* C12: once build_profile_database has completed, profiles and rules have
\* exactly the OS identities of datastreams as keys; for every OS both have
\* exactly the versions of the descriptors discovered for it; for every OS
\* and version the keys of the rules entry are exactly the ids of the
\* profiles of the profiles entry; and the datastreams mapping in the
\* database is the output of the discovery, unchanged by the extraction.
C12_KeysConsistent ==
    BuildCompleted =>
        /\ database.datastreams = datastreams
        /\ datastreams = scan_scap_directory(fs)
        /\ DOMAIN database.profiles = OsNames(datastreams)
        /\ DOMAIN database.rules = OsNames(datastreams)
        /\ \A o \in OsNames(datastreams) :
               /\ DOMAIN database.profiles[o] = VersionsOf(datastreams, o)
               /\ DOMAIN database.rules[o] = VersionsOf(datastreams, o)
               /\ \A v \in VersionsOf(datastreams, o) :
                      DOMAIN database.rules[o][v] =
                          { database.profiles[o][v][i].id :
                              i \in DOMAIN database.profiles[o][v] }

\* A completed build over two versions of one OS, one of them a datastream
\* whose profiles are one without id and p1, the other without profiles.
C12_Witness ==
    /\ BuildCompleted
    /\ \E o \in DOMAIN database.rules :
           \E v, w \in DOMAIN database.rules[o] :
               /\ v # w
               /\ DOMAIN database.rules[o][v] = {"", "p1"}
               /\ Len(database.profiles[o][v]) = 2
               /\ DOMAIN database.rules[o][w] = {}
               /\ Len(database.profiles[o][w]) = 0
====
